---- MODULE Spec2Model ----
(***************************************************************************)
(* The cat game (drag-to-play variant, CatGame component): the pet stats,  *)
(* the interaction handlers, the timers and the mood resolver, as a state  *)
(* machine over a millisecond clock.                                       *)
(*                                                                         *)
(* One action is one callback of the browser event loop: the handler's     *)
(* queued setStats updaters applied in order, the other setters, and the   *)
(* effects React runs after the commit (mood history, save to storage).    *)
(* Date.now() reads the model clock `now`; a callback takes no time.       *)
(***************************************************************************)
EXTENDS Integers, Sequences, FiniteSets, Bags, TLC

(* ------------------------------ bounds -------------------------------- *)
StartTime == 1000000     \* clock value (ms) when the first session mounts
MaxSteps == 4            \* callbacks explored per behaviour
MaxSession == 100000     \* ms of session time explored
MaxTicks == 3            \* decay ticks explored by SpecDecay
MaxDay == 2              \* calendar days explored
MaxCompose == 2          \* callbacks explored by SpecCompose
MaxNeglect == 110        \* decay ticks explored by SpecNeglect
ReloadDelay == 600000    \* ms between closing the page and loading it again
MsPerDay == 86400000

(* -------------------------- program constants ------------------------- *)
ComboWindow == 10000
DecayPeriod == 15000
AutoSavePeriod == 300000
PurrWindow == 300000
LongPressMs == 600
PetMs == 5000
HeartMs == 3000
LongHeartMs == 3500
SparkleMs == 800
HistoryKeep == 20
TapHearts == 6
LongHearts == 8

Max(a, b) == IF a > b THEN a ELSE b
Min(a, b) == IF a < b THEN a ELSE b

(* mutant of clamp: the upper bound is not applied *)
clampNoCeiling(v) == Max(0, v)

(* const clamp = (v, min = 0, max = 100) => Math.max(min, Math.min(max, v)) *)
clamp(v) == Max(0, Min(100, v))

(* defaultStats, with Date.now() of the module load as lastInteraction *)
defaultStats(t) ==
  [hunger |-> 40, happiness |-> 60, energy |-> 70,
   lastInteraction |-> t, lastPet |-> 0, lastFed |-> 0, lastPlay |-> 0,
   lastSleep |-> 0, totalCareDays |-> 1, dailyStreak |-> 1,
   moodHistory |-> << >>, lastToy |-> "null"]

(* frame number as it is spliced into the sprite path *)
FrameStr(frame) == IF frame = 1 THEN "1" ELSE "2"

(* mutant of getCatSprite: sleeping is tested before eating *)
getCatSpriteSleepFirst(s, eatingF, sleepingF, playingF, pettingF, runningF, direction, frame, t) ==
  IF sleepingF THEN "cat_sitting_comfortable_purring"
  ELSE IF eatingF THEN "cat_eating"
  ELSE IF runningF THEN "cat_run_" \o direction \o "_" \o FrameStr(frame)
  ELSE IF playingF THEN "cat_very_happy"
  ELSE IF pettingF THEN "cat_sitting_happy"
  ELSE IF s.energy < 20 THEN "cat_mild_happy"
  ELSE IF s.happiness < 30 \/ s.hunger > 80 THEN "cat_sad"
  ELSE IF s.happiness > 90 /\ s.energy > 70 THEN "cat_very_happy"
  ELSE IF s.happiness > 80 /\ s.hunger < 50 THEN "cat_sitting_happy"
  ELSE IF s.happiness >= 60 /\ s.happiness <= 80 /\ t - s.lastPet < PurrWindow
       THEN "cat_sitting_comfortable_purring"
  ELSE "cat_mild_happy"

(* mutant of getCatSprite: the sad rule is tested before the tired rule *)
getCatSpriteSadFirst(s, eatingF, sleepingF, playingF, pettingF, runningF, direction, frame, t) ==
  IF eatingF THEN "cat_eating"
  ELSE IF sleepingF THEN "cat_sitting_comfortable_purring"
  ELSE IF runningF THEN "cat_run_" \o direction \o "_" \o FrameStr(frame)
  ELSE IF playingF THEN "cat_very_happy"
  ELSE IF pettingF THEN "cat_sitting_happy"
  ELSE IF s.happiness < 30 \/ s.hunger > 80 THEN "cat_sad"
  ELSE IF s.energy < 20 THEN "cat_mild_happy"
  ELSE IF s.happiness > 90 /\ s.energy > 70 THEN "cat_very_happy"
  ELSE IF s.happiness > 80 /\ s.hunger < 50 THEN "cat_sitting_happy"
  ELSE IF s.happiness >= 60 /\ s.happiness <= 80 /\ t - s.lastPet < PurrWindow
       THEN "cat_sitting_comfortable_purring"
  ELSE "cat_mild_happy"

(* getCatSprite: the sprite path (without directory and extension) *)
getCatSprite(s, eatingF, sleepingF, playingF, pettingF, runningF, direction, frame, t) ==
  IF eatingF THEN "cat_eating"
  ELSE IF sleepingF THEN "cat_sitting_comfortable_purring"
  ELSE IF runningF THEN "cat_run_" \o direction \o "_" \o FrameStr(frame)
  ELSE IF playingF THEN "cat_very_happy"
  ELSE IF pettingF THEN "cat_sitting_happy"
  ELSE IF s.energy < 20 THEN "cat_mild_happy"
  ELSE IF s.happiness < 30 \/ s.hunger > 80 THEN "cat_sad"
  ELSE IF s.happiness > 90 /\ s.energy > 70 THEN "cat_very_happy"
  ELSE IF s.happiness > 80 /\ s.hunger < 50 THEN "cat_sitting_happy"
  ELSE IF s.happiness >= 60 /\ s.happiness <= 80 /\ t - s.lastPet < PurrWindow
       THEN "cat_sitting_comfortable_purring"
  ELSE IF s.happiness >= 30 /\ s.happiness < 60 /\ s.hunger < 70 /\ s.energy > 30
       THEN "cat_mild_happy"
  ELSE "cat_mild_happy"

(* ------------------------- setStats updaters -------------------------- *)
(* each is the function passed to setStats, applied to prev at time t     *)

(* mutant of DecayUpdate: energy is written without clamp *)
DecayUpdateUnclamped(prev, t) ==
  [prev EXCEPT !.hunger = clamp(prev.hunger + 2),
               !.energy = prev.energy - 2,
               !.happiness = clamp(prev.happiness - 1),
               !.lastInteraction = t]

(* mutant of DecayUpdate: happiness decays by half instead of by one *)
DecayUpdateHalving(prev, t) ==
  [prev EXCEPT !.hunger = clamp(prev.hunger + 2),
               !.energy = clamp(prev.energy - 2),
               !.happiness = clamp(prev.happiness \div 2),
               !.lastInteraction = t]

(* mutant of DecayUpdate: happiness is not taken below 1 *)
DecayUpdateKeepsOne(prev, t) ==
  [prev EXCEPT !.hunger = clamp(prev.hunger + 2),
               !.energy = clamp(prev.energy - 2),
               !.happiness = Max(1, clamp(prev.happiness - 1)),
               !.lastInteraction = t]

DecayUpdate(prev, t) ==
  [prev EXCEPT !.hunger = clamp(prev.hunger + 2),
               !.energy = clamp(prev.energy - 2),
               !.happiness = clamp(prev.happiness - 1),
               !.lastInteraction = t]

(* roll: Math.random() < 0.2; up: Math.random() < 0.5 *)
RandomEventUpdate(prev, roll, up) ==
  IF roll THEN [prev EXCEPT !.happiness = clamp(prev.happiness + (IF up THEN 10 ELSE -10))]
  ELSE prev

ComboUpdate(prev, t) ==
  IF t - prev.lastInteraction < ComboWindow
  THEN [prev EXCEPT !.happiness = clamp(prev.happiness + 10)]
  ELSE prev

FeedUpdate(prev, t) ==
  [prev EXCEPT !.hunger = clamp(prev.hunger - 35),
               !.happiness = clamp(prev.happiness + 5),
               !.lastFed = t,
               !.lastInteraction = t]

(* mutant of PlayUpdate: the reward is applied when play starts *)
PlayUpdateEager(prev, t, toy) ==
  [prev EXCEPT !.happiness = clamp(prev.happiness + (IF toy = "ball" THEN 25 ELSE 30)),
               !.energy = clamp(prev.energy - (IF toy = "ball" THEN 12 ELSE 8)),
               !.hunger = clamp(prev.hunger + (IF toy = "ball" THEN 8 ELSE 6)),
               !.lastPlay = t, !.lastInteraction = t, !.lastToy = toy]

(* mutant of PlayUpdate: a toy chosen while one is recorded is not recorded *)
PlayUpdateFirstToy(prev, t, toy) ==
  [prev EXCEPT !.lastPlay = t, !.lastInteraction = t,
               !.lastToy = IF prev.lastToy = "null" THEN toy ELSE prev.lastToy]

PlayUpdate(prev, t, toy) ==
  [prev EXCEPT !.lastPlay = t, !.lastInteraction = t, !.lastToy = toy]

(* mutant of StopUpdate: the ball reward whatever the toy *)
StopUpdateBallOnly(prev) ==
  [prev EXCEPT !.happiness = clamp(prev.happiness + 25),
               !.energy = clamp(prev.energy - 12),
               !.hunger = clamp(prev.hunger + 8)]

(* the simple variant (part_000): handlePlay's own updater applies the     *)
(* reward of the toy at once                                               *)
SimplePlayUpdate(prev, t, toy) ==
  LET happiness == IF toy = "ball" THEN 25 ELSE 30
      energyCost == IF toy = "ball" THEN 12 ELSE 8
      hungerIncrease == IF toy = "ball" THEN 8 ELSE 6
  IN [prev EXCEPT !.happiness = clamp(prev.happiness + happiness),
                  !.energy = clamp(prev.energy - energyCost),
                  !.hunger = clamp(prev.hunger + hungerIncrease),
                  !.lastPlay = t, !.lastInteraction = t, !.lastToy = toy]

(* the stats handlePlay(toy) of the simple variant leaves: its updater,    *)
(* then handleCombo's                                                      *)
SimplePlay(prev, t, toy) == ComboUpdate(SimplePlayUpdate(prev, t, toy), t)

(* mutant of StopUpdate: the game costs no energy *)
StopUpdateNoEnergy(prev) ==
  LET happiness == IF prev.lastToy = "ball" THEN 25 ELSE 30
      hungerIncrease == IF prev.lastToy = "ball" THEN 8 ELSE 6
  IN [prev EXCEPT !.happiness = clamp(prev.happiness + happiness),
                  !.hunger = clamp(prev.hunger + hungerIncrease)]

StopUpdate(prev) ==
  LET happiness == IF prev.lastToy = "ball" THEN 25 ELSE 30
      energyCost == IF prev.lastToy = "ball" THEN 12 ELSE 8
      hungerIncrease == IF prev.lastToy = "ball" THEN 8 ELSE 6
  IN [prev EXCEPT !.happiness = clamp(prev.happiness + happiness),
                  !.energy = clamp(prev.energy - energyCost),
                  !.hunger = clamp(prev.hunger + hungerIncrease)]

PetUpdate(prev, t) ==
  [prev EXCEPT !.happiness = clamp(prev.happiness + 15),
               !.lastPet = t,
               !.lastInteraction = t]

LongPressUpdate(prev, t) ==
  [prev EXCEPT !.happiness = clamp(prev.happiness + 25),
               !.lastPet = t,
               !.lastInteraction = t]

SleepUpdate(prev, t) ==
  [prev EXCEPT !.energy = clamp(prev.energy + 55),
               !.lastSleep = t,
               !.lastInteraction = t]

(* mutant of StreakUpdate: only the care days are counted *)
StreakUpdateDaysOnly(prev) ==
  [prev EXCEPT !.totalCareDays = prev.totalCareDays + 1]

StreakUpdate(prev) ==
  [prev EXCEPT !.totalCareDays = prev.totalCareDays + 1,
               !.dailyStreak = prev.dailyStreak + 1]

(* Array.prototype.slice(-n) *)
SliceLast(seq, n) ==
  IF Len(seq) <= n THEN seq ELSE SubSeq(seq, Len(seq) - n + 1, Len(seq))

MoodHistoryUpdate(prev, mood, t) ==
  [prev EXCEPT !.moodHistory =
      Append(SliceLast(prev.moodHistory, HistoryKeep), [time |-> t, mood |-> mood])]


(* ---------------------------- JSON snapshot --------------------------- *)
(* The item under STORAGE_KEY is JSON text.  A text is modelled by what it *)
(* denotes: an object with a member per key, a number member by its decimal *)
(* digits, lastToy by a string or null token, moodHistory by an array of   *)
(* objects; or text that is not JSON at all.  The state keeps an item by   *)
(* the value setItem was given the text of, and Text renders the string    *)
(* getItem returns for it.                                                 *)
StatKeys == {"hunger", "happiness", "energy", "lastInteraction", "lastPet", "lastFed",
             "lastPlay", "lastSleep", "totalCareDays", "dailyStreak", "moodHistory",
             "lastToy"}

RECURSIVE Digits(_)
(* Number.prototype.toString of a non-negative integer: its decimal digits, *)
(* the most significant first                                              *)
Digits(n) == IF n < 10 THEN <<n>> ELSE Append(Digits(n \div 10), n % 10)

RECURSIVE ParseDigits(_)
(* the number a decimal numeral denotes *)
ParseDigits(ds) ==
  IF Len(ds) = 0 THEN 0
  ELSE 10 * ParseDigits(SubSeq(ds, 1, Len(ds) - 1)) + ds[Len(ds)]

JsonNumber(n) == [type |-> "number", digits |-> Digits(n)]
JsonToy(toy) == IF toy = "null" THEN [type |-> "null", text |-> "null"]
                ELSE [type |-> "string", text |-> toy]
JsonHistory(h) ==
  [type |-> "array",
   items |-> [i \in 1..Len(h) |-> [time |-> JsonNumber(h[i].time), mood |-> h[i].mood]]]

(* the text of one member *)
ToJson(key, v) ==
  IF key = "moodHistory" THEN JsonHistory(v)
  ELSE IF key = "lastToy" THEN JsonToy(v)
  ELSE JsonNumber(v)

(* JSON.stringify(stats): a member for every key the object has *)
JSONstringify(s) ==
  [wellFormed |-> TRUE, members |-> [key \in DOMAIN s |-> ToJson(key, s[key])]]

(* the value JSON.parse gives for one member *)
FromJson(key, v) ==
  IF key = "moodHistory"
  THEN [i \in 1..Len(v.items) |->
          [time |-> ParseDigits(v.items[i].time.digits), mood |-> v.items[i].mood]]
  ELSE IF key = "lastToy" THEN v.text
  ELSE ParseDigits(v.digits)

(* mutant of MergeOverDefaults: the spreads are swapped, the defaults win *)
MergeDefaultsOver(def, text) == def

(* { ...defaultStats, ...JSON.parse(saved) }: a member of the stored object *)
(* wins, a key the object lacks keeps its default                          *)
MergeOverDefaults(def, text) ==
  LET m == text.members
      Field(key) == IF key \in DOMAIN m THEN FromJson(key, m[key]) ELSE def[key]
  IN [hunger |-> Field("hunger"), happiness |-> Field("happiness"),
      energy |-> Field("energy"), lastInteraction |-> Field("lastInteraction"),
      lastPet |-> Field("lastPet"), lastFed |-> Field("lastFed"),
      lastPlay |-> Field("lastPlay"), lastSleep |-> Field("lastSleep"),
      totalCareDays |-> Field("totalCareDays"), dailyStreak |-> Field("dailyStreak"),
      moodHistory |-> Field("moodHistory"), lastToy |-> Field("lastToy")]

(* an object without some of its keys *)
WithoutKeys(obj, keys) == [key \in (DOMAIN obj) \ keys |-> obj[key]]

(* text under STORAGE_KEY that JSON.parse rejects with a SyntaxError, and  *)
(* the item that has this text                                             *)
CorruptText == [wellFormed |-> FALSE, members |-> << >>]
NotJson == [syntaxError |-> TRUE]

(* the string getItem returns for an item *)
Text(value) == IF value = NotJson THEN CorruptText ELSE JSONstringify(value)

(* ------------------------------- state -------------------------------- *)
VARIABLES
  stats,                \* useState<CatStats>
  eating, showToys, showSparkle, showHearts, showSleep,
  petHearts,            \* number of particle markers in the petHearts array
  activeToy, isPlaying, isPetting, isDragging, runDirection, runFrame,
  eatingTimeout, heartTimeout, sleepTimeout, petTimeout,   \* useRef: latest timer or NoTimer
  runAnimationInterval, \* useRef: TRUE when it holds an interval id
  touchStart,           \* useRef: time of touch start, or NoTouch
  timers,               \* pending setTimeout callbacks: bag of [kind, due]
  runIntervals,         \* number of live run-animation setInterval timers
  decayDue,             \* next firing of the 15 s decay interval
  autoSaveDue,          \* next firing of the 5 min auto-save interval
  storage,              \* localStorage: whether it can be used, and the item under
                        \* STORAGE_KEY (NoSnapshot or the value saved)
  lastDay,              \* localStorage cat_game_last_day, or NoDay
  today,                \* calendar day of the device clock
  now,                  \* Date.now()
  sessionStart,         \* Date.now() when the component mounted
  mounted,              \* the component is mounted
  catSprite,            \* sprite computed by the latest render
  ev,                   \* history: the latest callback, the state before it
  start,                \* history: stats when the session was mounted
  ticks,                \* history: decay ticks since mount
  steps                 \* history: callbacks run so far

flagVars == <<eating, showToys, showSparkle, showHearts, showSleep, petHearts,
              activeToy, isPlaying, isPetting, isDragging, runDirection, runFrame>>
refVars == <<eatingTimeout, heartTimeout, sleepTimeout, petTimeout,
             runAnimationInterval, touchStart>>
timerVars == <<timers, runIntervals, decayDue>>
dayVars == <<lastDay, today, sessionStart, start, mounted>>
vars == <<stats, flagVars, refVars, timerVars, autoSaveDue, storage, dayVars,
          now, catSprite, ev, ticks, steps>>

NoTimer == [kind |-> "none", due |-> 0]
NoTouch == 0
NoSnapshot == << >>     \* getItem returns null
Stored(item) == [available |-> TRUE, item |-> item]
(* localStorage.setItem(STORAGE_KEY, JSON.stringify(value)) *)
setItem(st, value) == [st EXCEPT !.item = <<value>>]
NoDay == -1

Timer(kind, due) == [kind |-> kind, due |-> due]
AddTimer(b, tm) == b (+) SetToBag({tm})
RemoveTimer(b, tm) == b (-) SetToBag({tm})
Pending(kind) == {tm \in BagToSet(timers) : tm.kind = kind}

(* the state a callback found, kept for the properties *)
Snapshot ==
  [stats |-> stats, eating |-> eating, timers |-> timers, isPlaying |-> isPlaying,
   isDragging |-> isDragging, touchStart |-> touchStart, now |-> now,
   showSleep |-> showSleep, isPetting |-> isPetting, lastDay |-> lastDay]

(* what a callback that is no load has read from storage *)
NotRead == [available |-> TRUE, item |-> NoSnapshot]

(* op: the callback; arg: its toy or kind; mid: stats after the handler's  *)
(* own updater, before handleCombo's; found: the storage a load has read   *)
Event(op, arg, mid) ==
  [op |-> op, arg |-> arg, pre |-> Snapshot, mid |-> mid, found |-> NotRead]

(* the render of line 463, from the state the callback leaves *)
Render(s, t) ==
  catSprite' = getCatSprite(s, eating', showSleep', isPlaying' /\ ~isDragging', isPetting',
                            isPlaying' /\ isDragging', runDirection', runFrame', t)

(* mutant of Commit: the save effect is not run again for the stats the    *)
(* mood-history effect sets                                               *)
CommitSaveOnce(s, statsSet, t) ==
  LET depsChanged ==
        \/ s.hunger # stats.hunger \/ s.happiness # stats.happiness
        \/ s.energy # stats.energy \/ eating' # eating \/ isPlaying' # isPlaying
        \/ isDragging' # isDragging \/ runDirection' # runDirection
        \/ runFrame' # runFrame
      mood == getCatSprite(s, eating', showSleep', isPlaying' /\ ~isDragging', isPetting',
                           isPlaying' /\ isDragging', runDirection', runFrame', t)
      s2 == IF depsChanged THEN MoodHistoryUpdate(s, mood, t) ELSE s
      changed == statsSet \/ depsChanged
  IN /\ stats' = s2
     /\ storage' = (IF statsSet THEN setItem(storage, s) ELSE storage)
     /\ autoSaveDue' = (IF changed THEN t + AutoSavePeriod ELSE autoSaveDue)
     /\ Render(s2, t)

(* What React does after a callback that ran at time t queued its updates: *)
(* s is stats after the queued updaters, statsSet tells whether they       *)
(* produced a new object.                                                  *)
(* The mood-history effect runs when one of its dependencies changed and   *)
(* appends to the latest stats; the save effect then stores the result;    *)
(* the auto-save effect (deps [stats]) restarts its interval.              *)
Commit(s, statsSet, t) ==
  LET depsChanged ==
        \/ s.hunger # stats.hunger \/ s.happiness # stats.happiness
        \/ s.energy # stats.energy \/ eating' # eating \/ isPlaying' # isPlaying
        \/ isDragging' # isDragging \/ runDirection' # runDirection
        \/ runFrame' # runFrame
      mood == getCatSprite(s, eating', showSleep', isPlaying' /\ ~isDragging', isPetting',
                           isPlaying' /\ isDragging', runDirection', runFrame', t)
      s2 == IF depsChanged THEN MoodHistoryUpdate(s, mood, t) ELSE s
      changed == statsSet \/ depsChanged
  IN /\ stats' = s2
     /\ storage' = (IF changed THEN setItem(storage, s2) ELSE storage)
     /\ autoSaveDue' = (IF changed THEN t + AutoSavePeriod ELSE autoSaveDue)
     /\ Render(s2, t)

Count == steps < MaxSteps /\ steps' = steps + 1
(* a callback of the mounted component *)
Step == mounted /\ Count

(* ------------------------------- mount -------------------------------- *)
(* catSprite before the first render *)
Unrendered == "unrendered"

(* useState initializer: the stored snapshot merged over defaultStats *)
LoadStats(item, t) ==
  IF item = NoSnapshot THEN defaultStats(t) ELSE MergeOverDefaults(defaultStats(t), Text(item[1]))

(* the initializer throws: getItem is denied, or JSON.parse rejects the text *)
LoadThrows(st) == ~st.available \/ (st.item # NoSnapshot /\ ~Text(st.item[1]).wellFormed)

(* mutant of MountStats: the streak is counted on every load *)
MountStatsEveryLoad(loaded, newDay, t) ==
  StreakUpdate(MoodHistoryUpdate(loaded,
    getCatSprite(loaded, FALSE, FALSE, FALSE, FALSE, FALSE, "right", 1, t), t))

(* stats once the mount effects have run: the mood-history effect and,    *)
(* when the stored day differs from today, the daily streak effect        *)
MountStats(loaded, newDay, t) ==
  LET m == MoodHistoryUpdate(loaded,
             getCatSprite(loaded, FALSE, FALSE, FALSE, FALSE, FALSE, "right", 1, t), t)
  IN IF newDay THEN StreakUpdate(m) ELSE m

(* the component right after its mount at time t on calendar day `day`:   *)
(* prior is the stats the earlier session ended with, item what it left   *)
(* under STORAGE_KEY, last what it left under cat_game_last_day           *)
Mounted(prior, item, last, day, t) ==
  LET s == MountStats(LoadStats(item, t), last # day, t)
  IN /\ stats = s /\ start = s /\ storage = Stored(<<s>>)
     /\ lastDay = day /\ today = day /\ now = t /\ sessionStart = t
     /\ mounted = TRUE
     /\ eating = FALSE /\ showToys = FALSE /\ showSparkle = FALSE
     /\ showHearts = FALSE /\ showSleep = FALSE /\ petHearts = 0
     /\ activeToy = "null" /\ isPlaying = FALSE /\ isPetting = FALSE
     /\ isDragging = FALSE /\ runDirection = "right" /\ runFrame = 1
     /\ eatingTimeout = NoTimer /\ heartTimeout = NoTimer
     /\ sleepTimeout = NoTimer /\ petTimeout = NoTimer
     /\ runAnimationInterval = FALSE /\ touchStart = NoTouch
     /\ timers = EmptyBag /\ runIntervals = 0
     /\ decayDue = t + DecayPeriod /\ autoSaveDue = t + AutoSavePeriod
     /\ catSprite = getCatSprite(s, FALSE, FALSE, FALSE, FALSE, FALSE, "right", 1, t)
     /\ ticks = 0
     /\ ev = [op |-> "mount", arg |-> "none",
              pre |-> [stats |-> prior, eating |-> FALSE,
                       timers |-> EmptyBag, isPlaying |-> FALSE, isDragging |-> FALSE,
                       touchStart |-> NoTouch, now |-> t,
                       showSleep |-> FALSE, isPetting |-> FALSE, lastDay |-> last],
              mid |-> LoadStats(item, t), found |-> Stored(item)]

(* stats an earlier session of the game can have ended with *)
SavedStats(h, p, e, pet) ==
  [hunger |-> h, happiness |-> p, energy |-> e,
   lastInteraction |-> StartTime - ReloadDelay, lastPet |-> pet,
   lastFed |-> 0, lastPlay |-> 0, lastSleep |-> 0,
   totalCareDays |-> 3, dailyStreak |-> 3, moodHistory |-> << >>, lastToy |-> "ball"]

SavedSnapshots ==
  { SavedStats(100, 0, 0, 0),
    SavedStats(0, 100, 100, StartTime - ReloadDelay),
    SavedStats(79, 91, 41, StartTime - ReloadDelay),
    SavedStats(34, 86, 11, 0) }

(* the stats a version of the game that had no lastToy and no lastSleep  *)
(* has stored                                                              *)
LegacyMissing == {"lastToy", "lastSleep"}
LegacyStats == WithoutKeys(SavedStats(52, 71, 64, 0), LegacyMissing)

Init ==
  /\ steps = 0
  /\ \/ Mounted(defaultStats(StartTime), NoSnapshot, NoDay, 1, StartTime)
     \/ \E saved \in SavedSnapshots, last \in {0, 1} :
          Mounted(saved, <<saved>>, last, 1, StartTime)
     \/ Mounted(LegacyStats, <<LegacyStats>>, 1, 1, StartTime)


(* ------------------------------ the clock ----------------------------- *)
Dues == {tm.due : tm \in BagToSet(timers)} \cup (IF mounted THEN {decayDue} ELSE {})
NextDue == CHOOSE d \in Dues : \A e \in Dues : d <= e

(* time passes by d ms with no callback; no pending timer is overtaken *)
Advance(d) ==
  /\ Step
  /\ d > 0
  /\ now + d <= NextDue
  /\ now + d <= sessionStart + MaxSession
  /\ now' = now + d
  /\ ev' = Event("advance", "none", stats)
  /\ UNCHANGED <<stats, flagVars, refVars, timerVars, autoSaveDue, storage, dayVars,
                 catSprite, ticks>>

(* ------------------------------- timers ------------------------------- *)
(* A timer callback runs when its timer is the next one due: the event    *)
(* loop idles until the due time and then runs the callback.              *)
Fires(tm) ==
  /\ tm.due = NextDue
  /\ tm.due <= sessionStart + MaxSession
  /\ now' = tm.due
  /\ timers' = RemoveTimer(timers, tm)

(* setInterval(..., 15 * 1000): the stat decay *)
DecayTick ==
  /\ Step
  /\ decayDue = NextDue
  /\ decayDue <= sessionStart + MaxSession
  /\ ticks < MaxTicks
  /\ now' = decayDue
  /\ decayDue' = decayDue + DecayPeriod
  /\ ticks' = ticks + 1
  /\ ev' = Event("decay", "none", DecayUpdate(stats, decayDue))
  /\ UNCHANGED <<flagVars, refVars, timers, runIntervals, dayVars>>
  /\ Commit(DecayUpdate(stats, decayDue), TRUE, decayDue)

(* setInterval(..., 5 * 60 * 1000) of the auto-save effect: it writes the  *)
(* stats of the render that created it.  The effect's dependency is stats, *)
(* so Commit starts the interval afresh whenever stats changes, and the    *)
(* decay tick changes stats every 15 s: in a mounted session this callback *)
(* is never the next one due, and no specification below can take it.      *)
AutoSave ==
  /\ Step
  /\ autoSaveDue <= NextDue
  /\ autoSaveDue <= sessionStart + MaxSession
  /\ now' = autoSaveDue
  /\ autoSaveDue' = autoSaveDue + AutoSavePeriod
  /\ storage' = setItem(storage, stats)
  /\ ev' = Event("autoSave", "none", stats)
  /\ UNCHANGED <<stats, flagVars, refVars, timerVars, dayVars, catSprite, ticks>>

(* setInterval(..., 2-4 h): the random happiness event.  The session time  *)
(* explored is far shorter than its period, so its firing time is left     *)
(* open: it may fire at any moment.                                        *)
RandomEvent(roll, up) ==
  /\ Step
  /\ ev' = Event("random", IF roll THEN (IF up THEN "up" ELSE "down") ELSE "none",
                 RandomEventUpdate(stats, roll, up))
  /\ UNCHANGED <<flagVars, refVars, timerVars, dayVars, now, ticks>>
  /\ Commit(RandomEventUpdate(stats, roll, up), roll, now)

(* eatingTimeout callback: setEating(false) *)
EatingTimeout ==
  /\ Step
  /\ \E tm \in Pending("eating") : Fires(tm)
  /\ eating' = FALSE
  /\ ev' = Event("eatingTimeout", "none", stats)
  /\ UNCHANGED <<showToys, showSparkle, showHearts, showSleep, petHearts, activeToy,
                 isPlaying, isPetting, isDragging, runDirection, runFrame>>
  /\ UNCHANGED <<refVars, runIntervals, decayDue, dayVars, ticks>>
  /\ Commit(stats, FALSE, now')

(* petTimeout callback: setIsPetting(false) *)
PetTimeout ==
  /\ Step
  /\ \E tm \in Pending("pet") : Fires(tm)
  /\ isPetting' = FALSE
  /\ ev' = Event("petTimeout", "none", stats)
  /\ UNCHANGED <<eating, showToys, showSparkle, showHearts, showSleep, petHearts,
                 activeToy, isPlaying, isDragging, runDirection, runFrame>>
  /\ UNCHANGED <<refVars, runIntervals, decayDue, dayVars, ticks>>
  /\ Commit(stats, FALSE, now')

(* heart timeouts (3000 ms of handlePet, 3500 ms of the long press):      *)
(* setShowHearts(false); setPetHearts([])                                  *)
HeartTimeout ==
  /\ Step
  /\ \E tm \in Pending("heart") \cup Pending("longHeart") : Fires(tm)
  /\ showHearts' = FALSE
  /\ petHearts' = 0
  /\ ev' = Event("heartTimeout", "none", stats)
  /\ UNCHANGED <<eating, showToys, showSparkle, showSleep, activeToy, isPlaying,
                 isPetting, isDragging, runDirection, runFrame>>
  /\ UNCHANGED <<refVars, runIntervals, decayDue, dayVars, ticks>>
  /\ Commit(stats, FALSE, now')

(* sleepTimeout callback: setShowSleep(false) *)
SleepTimeout ==
  /\ Step
  /\ \E tm \in Pending("sleep") : Fires(tm)
  /\ showSleep' = FALSE
  /\ ev' = Event("sleepTimeout", "none", stats)
  /\ UNCHANGED <<eating, showToys, showSparkle, showHearts, petHearts, activeToy,
                 isPlaying, isPetting, isDragging, runDirection, runFrame>>
  /\ UNCHANGED <<refVars, runIntervals, decayDue, dayVars, ticks>>
  /\ Commit(stats, FALSE, now')

(* mutant of SparkleTimeout: the timer also ends the game *)
SparkleTimeoutEndsPlay ==
  /\ Step
  /\ \E tm \in Pending("sparkle") : Fires(tm)
  /\ showSparkle' = FALSE
  /\ isPlaying' = FALSE
  /\ ev' = Event("sparkleTimeout", "none", stats)
  /\ UNCHANGED <<eating, showToys, showHearts, showSleep, petHearts, activeToy,
                 isPetting, isDragging, runDirection, runFrame>>
  /\ UNCHANGED <<refVars, runIntervals, decayDue, dayVars, ticks>>
  /\ Commit(stats, FALSE, now')

(* sparkle timeout of handleToyDrag: setShowSparkle(false) *)
SparkleTimeout ==
  /\ Step
  /\ \E tm \in Pending("sparkle") : Fires(tm)
  /\ showSparkle' = FALSE
  /\ ev' = Event("sparkleTimeout", "none", stats)
  /\ UNCHANGED <<eating, showToys, showHearts, showSleep, petHearts, activeToy,
                 isPlaying, isPetting, isDragging, runDirection, runFrame>>
  /\ UNCHANGED <<refVars, runIntervals, decayDue, dayVars, ticks>>
  /\ Commit(stats, FALSE, now')

(* run-animation interval callback: setRunFrame(prev => prev === 1 ? 2 : 1) *)
(* Its 300 ms period is not tracked: a live interval may fire at any time. *)
RunFrameTick ==
  /\ Step
  /\ runIntervals > 0
  /\ runFrame' = (IF runFrame = 1 THEN 2 ELSE 1)
  /\ ev' = Event("runFrame", "none", stats)
  /\ UNCHANGED <<eating, showToys, showSparkle, showHearts, showSleep, petHearts,
                 activeToy, isPlaying, isPetting, isDragging, runDirection>>
  /\ UNCHANGED <<refVars, timerVars, dayVars, now, ticks>>
  /\ Commit(stats, FALSE, now)


(* ------------------------------ handlers ------------------------------ *)
(* mutant of HandleFeed: no `if (eating) return` *)
HandleFeedUnguarded(dur) ==
  /\ Step
  /\ eating' = TRUE
  /\ eatingTimeout' = Timer("eating", now + dur)
  /\ timers' = AddTimer(timers, Timer("eating", now + dur))
  /\ ev' = Event("feed", "accepted", FeedUpdate(stats, now))
  /\ UNCHANGED <<showToys, showSparkle, showHearts, showSleep, petHearts,
                 activeToy, isPlaying, isPetting, isDragging, runDirection,
                 runFrame>>
  /\ UNCHANGED <<heartTimeout, sleepTimeout, petTimeout, runAnimationInterval,
                 touchStart, runIntervals, decayDue, dayVars, now, ticks>>
  /\ Commit(ComboUpdate(FeedUpdate(stats, now), now), TRUE, now)

(* mutant of HandleFeed: the eating timer is not started *)
HandleFeedNoTimer(dur) ==
  /\ Step
  /\ IF eating
     THEN /\ ev' = Event("feed", "rejected", stats)
          /\ UNCHANGED <<stats, flagVars, refVars, timerVars, autoSaveDue, storage,
                         dayVars, now, catSprite, ticks>>
     ELSE /\ eating' = TRUE
          /\ ev' = Event("feed", "accepted", FeedUpdate(stats, now))
          /\ UNCHANGED <<showToys, showSparkle, showHearts, showSleep, petHearts,
                         activeToy, isPlaying, isPetting, isDragging, runDirection,
                         runFrame>>
          /\ UNCHANGED <<refVars, timerVars, dayVars, now, ticks>>
          /\ Commit(ComboUpdate(FeedUpdate(stats, now), now), TRUE, now)

(* handleFeed; dur is 4000 + Math.random() * 2000 *)
HandleFeed(dur) ==
  /\ Step
  /\ IF eating
     THEN /\ ev' = Event("feed", "rejected", stats)
          /\ UNCHANGED <<stats, flagVars, refVars, timerVars, autoSaveDue, storage,
                         dayVars, now, catSprite, ticks>>
     ELSE /\ eating' = TRUE
          /\ eatingTimeout' = Timer("eating", now + dur)
          /\ timers' = AddTimer(timers, Timer("eating", now + dur))
          /\ ev' = Event("feed", "accepted", FeedUpdate(stats, now))
          /\ UNCHANGED <<showToys, showSparkle, showHearts, showSleep, petHearts,
                         activeToy, isPlaying, isPetting, isDragging, runDirection,
                         runFrame>>
          /\ UNCHANGED <<heartTimeout, sleepTimeout, petTimeout, runAnimationInterval,
                         touchStart, runIntervals, decayDue, dayVars, now, ticks>>
          /\ Commit(ComboUpdate(FeedUpdate(stats, now), now), TRUE, now)

(* Play button: setShowToys(true) *)
OpenToys ==
  /\ Step
  /\ ~showToys
  /\ showToys' = TRUE
  /\ ev' = Event("openToys", "none", stats)
  /\ UNCHANGED <<eating, showSparkle, showHearts, showSleep, petHearts, activeToy,
                 isPlaying, isPetting, isDragging, runDirection, runFrame>>
  /\ UNCHANGED <<refVars, timerVars, dayVars, now, ticks>>
  /\ Commit(stats, FALSE, now)

(* Cancel button of the toy modal: setShowToys(false) *)
CancelToys ==
  /\ Step
  /\ showToys
  /\ showToys' = FALSE
  /\ ev' = Event("cancelToys", "none", stats)
  /\ UNCHANGED <<eating, showSparkle, showHearts, showSleep, petHearts, activeToy,
                 isPlaying, isPetting, isDragging, runDirection, runFrame>>
  /\ UNCHANGED <<refVars, timerVars, dayVars, now, ticks>>
  /\ Commit(stats, FALSE, now)

(* handlePlay(toy) *)
HandlePlay(toy) ==
  /\ Step
  /\ showToys' = FALSE
  /\ isPlaying' = TRUE
  /\ activeToy' = toy
  /\ isDragging' = FALSE
  /\ runIntervals' = runIntervals + 1
  /\ runAnimationInterval' = TRUE
  /\ ev' = Event("play", toy, PlayUpdate(stats, now, toy))
  /\ UNCHANGED <<eating, showSparkle, showHearts, showSleep, petHearts, isPetting,
                 runDirection, runFrame>>
  /\ UNCHANGED <<eatingTimeout, heartTimeout, sleepTimeout, petTimeout, touchStart,
                 timers, decayDue, dayVars, now, ticks>>
  /\ Commit(ComboUpdate(PlayUpdate(stats, now, toy), now), TRUE, now)

(* the toy buttons exist only in the modal *)
ToyButton(toy) == showToys /\ HandlePlay(toy)

(* handleStopPlaying *)
(* mutant of HandleStopPlaying: isDragging is left as it is *)
HandleStopPlayingKeepsDrag ==
  /\ Step
  /\ isPlaying' = FALSE
  /\ activeToy' = "null"
  /\ showSparkle' = FALSE
  /\ runIntervals' = (IF runAnimationInterval THEN runIntervals - 1 ELSE runIntervals)
  /\ runAnimationInterval' = FALSE
  /\ ev' = Event("stop", stats.lastToy, StopUpdate(stats))
  /\ UNCHANGED <<eating, showToys, showHearts, showSleep, petHearts, isPetting,
                 isDragging, runDirection, runFrame>>
  /\ UNCHANGED <<eatingTimeout, heartTimeout, sleepTimeout, petTimeout, touchStart,
                 timers, decayDue, dayVars, now, ticks>>
  /\ Commit(StopUpdate(stats), TRUE, now)

HandleStopPlaying ==
  /\ Step
  /\ isPlaying' = FALSE
  /\ activeToy' = "null"
  /\ isDragging' = FALSE
  /\ showSparkle' = FALSE
  /\ runIntervals' = (IF runAnimationInterval THEN runIntervals - 1 ELSE runIntervals)
  /\ runAnimationInterval' = FALSE
  /\ ev' = Event("stop", stats.lastToy, StopUpdate(stats))
  /\ UNCHANGED <<eating, showToys, showHearts, showSleep, petHearts, isPetting,
                 runDirection, runFrame>>
  /\ UNCHANGED <<eatingTimeout, heartTimeout, sleepTimeout, petTimeout, touchStart,
                 timers, decayDue, dayVars, now, ticks>>
  /\ Commit(StopUpdate(stats), TRUE, now)

(* the Stop Playing button is rendered only while isPlaying *)
StopButton == isPlaying /\ HandleStopPlaying

(* mouse down / touch start on the toy, rendered while isPlaying && activeToy *)
ToyGrab ==
  /\ Step
  /\ isPlaying /\ activeToy # "null"
  /\ isDragging' = TRUE
  /\ ev' = Event("toyGrab", "none", stats)
  /\ UNCHANGED <<eating, showToys, showSparkle, showHearts, showSleep, petHearts,
                 activeToy, isPlaying, isPetting, runDirection, runFrame>>
  /\ UNCHANGED <<refVars, timerVars, dayVars, now, ticks>>
  /\ Commit(stats, FALSE, now)

(* mouse up on the cat area: setIsDragging(false) *)
ToyRelease ==
  /\ Step
  /\ isDragging
  /\ isDragging' = FALSE
  /\ ev' = Event("toyRelease", "none", stats)
  /\ UNCHANGED <<eating, showToys, showSparkle, showHearts, showSleep, petHearts,
                 activeToy, isPlaying, isPetting, runDirection, runFrame>>
  /\ UNCHANGED <<refVars, timerVars, dayVars, now, ticks>>
  /\ Commit(stats, FALSE, now)

(* handleMouseMove -> handleToyDrag; direction from the pointer position,  *)
(* sparkle: Math.random() < 0.1                                            *)
HandleToyDrag(direction, sparkle) ==
  /\ Step
  /\ isDragging
  /\ isPlaying /\ activeToy # "null"
  /\ runDirection' = direction
  /\ showSparkle' = (IF sparkle THEN TRUE ELSE showSparkle)
  /\ timers' = (IF sparkle THEN AddTimer(timers, Timer("sparkle", now + SparkleMs))
                ELSE timers)
  /\ ev' = Event("toyDrag", direction, stats)
  /\ UNCHANGED <<eating, showToys, showHearts, showSleep, petHearts, activeToy,
                 isPlaying, isPetting, isDragging, runFrame>>
  /\ UNCHANGED <<refVars, runIntervals, decayDue, dayVars, now, ticks>>
  /\ Commit(stats, FALSE, now)


(* body of handlePet, apart from the stats *)
PetBody ==
  /\ showHearts' = TRUE
  /\ isPetting' = TRUE
  /\ petHearts' = TapHearts
  /\ petTimeout' = Timer("pet", now + PetMs)
  /\ heartTimeout' = Timer("heart", now + HeartMs)
  /\ timers' = AddTimer(AddTimer(timers, Timer("pet", now + PetMs)),
                        Timer("heart", now + HeartMs))
  /\ UNCHANGED <<eating, showToys, showSparkle, showSleep, activeToy, isPlaying,
                 runDirection, runFrame>>
  /\ UNCHANGED <<eatingTimeout, sleepTimeout, runAnimationInterval, runIntervals,
                 decayDue, dayVars, now, ticks>>

(* mutant of HandlePet: handleCombo builds its result from the stats of    *)
(* the render instead of the queued prev, and so drops the pet update      *)
HandlePetStale ==
  /\ Step
  /\ PetBody
  /\ ev' = Event("pet", "click", PetUpdate(stats, now))
  /\ UNCHANGED <<isDragging, touchStart>>
  /\ Commit(ComboUpdate(stats, now), TRUE, now)

(* handlePet, as the click handler of the cat and of the Pet button *)
HandlePet ==
  /\ Step
  /\ PetBody
  /\ ev' = Event("pet", "click", PetUpdate(stats, now))
  /\ UNCHANGED <<isDragging, touchStart>>
  /\ Commit(ComboUpdate(PetUpdate(stats, now), now), TRUE, now)

(* handleTouchStart *)
HandleTouchStart ==
  /\ Step
  /\ touchStart' = now
  /\ ev' = Event("touchStart", "none", stats)
  /\ UNCHANGED <<stats, flagVars, eatingTimeout, heartTimeout, sleepTimeout, petTimeout,
                 runAnimationInterval, timerVars, autoSaveDue, storage, dayVars, now,
                 catSprite, ticks>>

(* mutant of HandleTouchEnd: the hold is compared with >= *)
HandleTouchEndFrom600 ==
  /\ Step
  /\ touchStart' = NoTouch
  /\ isDragging' = FALSE
  /\ IF touchStart # NoTouch /\ now - touchStart >= LongPressMs
     THEN /\ petHearts' = LongHearts
          /\ showHearts' = TRUE
          /\ timers' = AddTimer(timers, Timer("longHeart", now + LongHeartMs))
          /\ ev' = Event("touchEnd", "long", LongPressUpdate(stats, now))
          /\ UNCHANGED <<eating, showToys, showSparkle, showSleep, activeToy, isPlaying,
                         isPetting, runDirection, runFrame>>
          /\ UNCHANGED <<eatingTimeout, heartTimeout, sleepTimeout, petTimeout,
                         runAnimationInterval, runIntervals, decayDue, dayVars, now,
                         ticks>>
          /\ Commit(ComboUpdate(LongPressUpdate(stats, now), now), TRUE, now)
     ELSE /\ PetBody
          /\ ev' = Event("touchEnd", "tap", PetUpdate(stats, now))
          /\ Commit(ComboUpdate(PetUpdate(stats, now), now), TRUE, now)

(* handleTouchEnd on the cat; the event then bubbles to the cat area,      *)
(* whose onTouchEnd is setIsDragging(false)                                *)
HandleTouchEnd ==
  /\ Step
  /\ touchStart' = NoTouch
  /\ isDragging' = FALSE
  /\ IF touchStart # NoTouch /\ now - touchStart > LongPressMs
     THEN /\ petHearts' = LongHearts
          /\ showHearts' = TRUE
          /\ timers' = AddTimer(timers, Timer("longHeart", now + LongHeartMs))
          /\ ev' = Event("touchEnd", "long", LongPressUpdate(stats, now))
          /\ UNCHANGED <<eating, showToys, showSparkle, showSleep, activeToy, isPlaying,
                         isPetting, runDirection, runFrame>>
          /\ UNCHANGED <<eatingTimeout, heartTimeout, sleepTimeout, petTimeout,
                         runAnimationInterval, runIntervals, decayDue, dayVars, now,
                         ticks>>
          /\ Commit(ComboUpdate(LongPressUpdate(stats, now), now), TRUE, now)
     ELSE /\ PetBody
          /\ ev' = Event("touchEnd", "tap", PetUpdate(stats, now))
          /\ Commit(ComboUpdate(PetUpdate(stats, now), now), TRUE, now)

(* mutant of HandleSleep: it returns early when the cat is rested or asleep *)
HandleSleepGuarded(dur) ==
  /\ Step
  /\ IF stats.energy > 40 \/ showSleep
     THEN /\ ev' = Event("sleep", "rejected", stats)
          /\ UNCHANGED <<stats, flagVars, refVars, timerVars, autoSaveDue, storage,
                         dayVars, now, catSprite, ticks>>
     ELSE /\ showSleep' = TRUE
          /\ sleepTimeout' = Timer("sleep", now + dur)
          /\ timers' = AddTimer(timers, Timer("sleep", now + dur))
          /\ ev' = Event("sleep", "none", SleepUpdate(stats, now))
          /\ UNCHANGED <<eating, showToys, showSparkle, showHearts, petHearts, activeToy,
                         isPlaying, isPetting, isDragging, runDirection, runFrame>>
          /\ UNCHANGED <<eatingTimeout, heartTimeout, petTimeout, runAnimationInterval,
                         touchStart, runIntervals, decayDue, dayVars, now, ticks>>
          /\ Commit(ComboUpdate(SleepUpdate(stats, now), now), TRUE, now)

(* handleSleep; dur is 10000 + Math.random() * 5000 *)
HandleSleep(dur) ==
  /\ Step
  /\ showSleep' = TRUE
  /\ sleepTimeout' = Timer("sleep", now + dur)
  /\ timers' = AddTimer(timers, Timer("sleep", now + dur))
  /\ ev' = Event("sleep", "none", SleepUpdate(stats, now))
  /\ UNCHANGED <<eating, showToys, showSparkle, showHearts, petHearts, activeToy,
                 isPlaying, isPetting, isDragging, runDirection, runFrame>>
  /\ UNCHANGED <<eatingTimeout, heartTimeout, petTimeout, runAnimationInterval,
                 touchStart, runIntervals, decayDue, dayVars, now, ticks>>
  /\ Commit(ComboUpdate(SleepUpdate(stats, now), now), TRUE, now)

(* the Sleep button is disabled while stats.energy > 40 *)
SleepButton(dur) == stats.energy <= 40 /\ HandleSleep(dur)

(* The component unmounts while the page lives on.  The effect cleanups   *)
(* run: the decay, random-event and auto-save intervals are cleared by    *)
(* their own effects, and the cleanup of line 126 clears the timer each   *)
(* ref holds (sparkleTimeout and playTimeout are never assigned, they hold *)
(* null) and the latest run-animation interval.  clearTimeout of a timer   *)
(* that has fired does nothing.                                            *)
Unmount ==
  /\ Step
  /\ mounted' = FALSE
  /\ timers' = RemoveTimer(RemoveTimer(RemoveTimer(RemoveTimer(timers, eatingTimeout),
                                                   heartTimeout), sleepTimeout), petTimeout)
  /\ runIntervals' = (IF runAnimationInterval THEN runIntervals - 1 ELSE runIntervals)
  /\ ev' = Event("unmount", "none", stats)
  /\ UNCHANGED <<stats, flagVars, refVars, decayDue, autoSaveDue, storage, lastDay,
                 today, sessionStart, start, now, catSprite, ticks>>

(* a timeout the unmount left pending fires: its setters address a        *)
(* component that is gone and change nothing                               *)
AbandonedTimeout ==
  /\ Count
  /\ ~mounted
  /\ \E tm \in BagToSet(timers) :
       /\ Fires(tm)
       /\ ev' = Event("abandonedTimeout", tm.kind, stats)
  /\ UNCHANGED <<stats, flagVars, refVars, runIntervals, decayDue, autoSaveDue, storage,
                 dayVars, catSprite, ticks>>

(* The page is loaded again, days calendar days later: every timer of the *)
(* old page is gone and the component mounts from storage.  When the      *)
(* useState initializer throws nothing catches it and no component mounts. *)
Reload(days) ==
  LET t == now + days * MsPerDay + ReloadDelay
      day == today + days
  IN /\ Count
     /\ day <= MaxDay
     /\ \E threw \in {LoadThrows(storage)} :
        \E loaded \in {IF threw THEN defaultStats(t) ELSE LoadStats(storage.item, t)} :
        \E s \in {IF threw THEN loaded ELSE MountStats(loaded, lastDay # day, t)} :
          /\ mounted' = ~threw
          /\ stats' = s /\ start' = s
          /\ storage' = (IF threw THEN storage ELSE setItem(storage, s))
          /\ lastDay' = (IF threw THEN lastDay ELSE day)
          /\ today' = day /\ now' = t /\ sessionStart' = t
          /\ eating' = FALSE /\ showToys' = FALSE /\ showSparkle' = FALSE
          /\ showHearts' = FALSE /\ showSleep' = FALSE /\ petHearts' = 0
          /\ activeToy' = "null" /\ isPlaying' = FALSE /\ isPetting' = FALSE
          /\ isDragging' = FALSE /\ runDirection' = "right" /\ runFrame' = 1
          /\ eatingTimeout' = NoTimer /\ heartTimeout' = NoTimer
          /\ sleepTimeout' = NoTimer /\ petTimeout' = NoTimer
          /\ runAnimationInterval' = FALSE /\ touchStart' = NoTouch
          /\ timers' = EmptyBag /\ runIntervals' = 0
          /\ decayDue' = t + DecayPeriod /\ autoSaveDue' = t + AutoSavePeriod
          /\ catSprite' = getCatSprite(s, FALSE, FALSE, FALSE, FALSE, FALSE, "right", 1, t)
          /\ ticks' = 0
          /\ ev' = [Event("reload", IF threw THEN "threw" ELSE "loaded", loaded)
                      EXCEPT !.found = storage]

(* ------------------------------ behaviour ----------------------------- *)
EatDurations == {4000, 5999}
SleepDurations == {10000, 14999}
Toys == {"ball", "mouse"}
AdvanceSteps == {9999, 10000}
TouchSteps == {599, 600, 601}

(* The game: every timer and every handler.  The sparkle of a toy drag,   *)
(* a cosmetic effect that needs a longer run than the rest, is left to    *)
(* the play specification.                                                 *)
Next ==
  \/ \E d \in AdvanceSteps : Advance(d)
  \/ DecayTick
  \/ \E roll \in BOOLEAN, up \in BOOLEAN : RandomEvent(roll, up)
  \/ EatingTimeout
  \/ PetTimeout
  \/ HeartTimeout
  \/ SleepTimeout
  \/ RunFrameTick
  \/ \E dur \in EatDurations : HandleFeed(dur)
  \/ OpenToys
  \/ CancelToys
  \/ \E toy \in Toys : ToyButton(toy)
  \/ StopButton
  \/ ToyGrab
  \/ ToyRelease
  \/ \E direction \in {"left", "right"} : HandleToyDrag(direction, FALSE)
  \/ HandlePet
  \/ HandleTouchStart
  \/ HandleTouchEnd
  \/ \E dur \in SleepDurations : SleepButton(dur)
  \/ \E days \in {0, 1} : Reload(days)

Spec == Init /\ [][Next]_vars

(* Touch gestures on the cat, with the clock at the resolution of the     *)
(* long-press threshold.                                                   *)
NextTouch ==
  \/ \E d \in TouchSteps : Advance(d)
  \/ HandleTouchStart
  \/ HandleTouchEnd

SpecTouch == Init /\ [][NextTouch]_vars

(* The Sleep handler called in any state, whatever the Sleep button shows. *)
NextSleep ==
  \/ \E dur \in SleepDurations : HandleSleep(dur)
  \/ SleepTimeout
  \/ DecayTick
  \/ HandlePet
  \/ \E d \in AdvanceSteps : Advance(d)

SpecSleep == Init /\ [][NextSleep]_vars

(* Loading the page, whatever the browser's storage holds: nothing, a     *)
(* snapshot of an earlier session, text that is not JSON, or no usable     *)
(* storage at all (getItem throws).  prior is the stats of the earlier     *)
(* session.                                                                *)
Closed(prior, st, last, day, t) ==
  /\ stats = prior /\ start = prior /\ storage = st
  /\ lastDay = last /\ today = day /\ now = t /\ sessionStart = t
  /\ mounted = FALSE
  /\ eating = FALSE /\ showToys = FALSE /\ showSparkle = FALSE
  /\ showHearts = FALSE /\ showSleep = FALSE /\ petHearts = 0
  /\ activeToy = "null" /\ isPlaying = FALSE /\ isPetting = FALSE
  /\ isDragging = FALSE /\ runDirection = "right" /\ runFrame = 1
  /\ eatingTimeout = NoTimer /\ heartTimeout = NoTimer
  /\ sleepTimeout = NoTimer /\ petTimeout = NoTimer
  /\ runAnimationInterval = FALSE /\ touchStart = NoTouch
  /\ timers = EmptyBag /\ runIntervals = 0
  /\ decayDue = t + DecayPeriod /\ autoSaveDue = t + AutoSavePeriod
  /\ catSprite = Unrendered
  /\ ticks = 0
  /\ ev = [op |-> "closed", arg |-> "none",
           pre |-> [stats |-> prior, eating |-> FALSE,
                    timers |-> EmptyBag, isPlaying |-> FALSE, isDragging |-> FALSE,
                    touchStart |-> NoTouch, now |-> t,
                    showSleep |-> FALSE, isPetting |-> FALSE, lastDay |-> last],
           mid |-> prior, found |-> NotRead]

InitLoad ==
  /\ steps = 0
  /\ \/ Closed(defaultStats(StartTime), Stored(NoSnapshot), NoDay, 1, StartTime)
     \/ \E saved \in SavedSnapshots, last \in {0, 1} :
          \/ Closed(saved, Stored(<<saved>>), last, 1, StartTime)
          \/ Closed(saved, Stored(<<NotJson>>), last, 1, StartTime)
          \/ Closed(saved, [available |-> FALSE, item |-> <<saved>>],
                    last, 1, StartTime)

NextLoad ==
  \/ \E days \in {0, 1} : Reload(days)
  \/ \E dur \in EatDurations : HandleFeed(dur)
  \/ HandlePet
  \/ DecayTick

SpecLoad == InitLoad /\ [][NextLoad]_vars

(* A game that has been played for a while: the stored mood history       *)
(* already holds n entries, one per decay tick of the earlier session.     *)
HistoryOf(n) ==
  [i \in 1..n |-> [time |-> StartTime - ReloadDelay - (n - i) * DecayPeriod,
                    mood |-> "cat_mild_happy"]]

LongPlayed == { [SavedStats(52, 71, 64, 0) EXCEPT !.moodHistory = HistoryOf(n)] :
                  n \in {HistoryKeep - 2, HistoryKeep - 1} }

InitHistory ==
  /\ steps = 0
  /\ \E saved \in LongPlayed : Mounted(saved, <<saved>>, 1, 1, StartTime)

NextHistory ==
  \/ DecayTick
  \/ \E dur \in EatDurations : HandleFeed(dur)
  \/ EatingTimeout
  \/ HandlePet

SpecHistory == InitHistory /\ [][NextHistory]_vars

(* Petting and feeding the cat, by click and by touch, until the          *)
(* component unmounts.                                                     *)
NextTeardown ==
  \/ \E d \in TouchSteps : Advance(d)
  \/ HandleTouchStart
  \/ HandleTouchEnd
  \/ HandlePet
  \/ \E dur \in EatDurations : HandleFeed(dur)
  \/ Unmount
  \/ AbandonedTimeout

SpecTeardown == Init /\ [][NextTeardown]_vars

(* Pure neglect: a session in which only the decay interval fires, from   *)
(* any stored stats.                                                       *)
DecayStarts ==
  { SavedStats(h, p, e, 0) : h \in {0, 40, 93, 97, 100}, p \in {0, 1, 3, 60, 100},
                             e \in {0, 1, 5, 70, 100} }

InitDecay ==
  /\ steps = 0
  /\ \E saved \in DecayStarts : Mounted(saved, <<saved>>, 1, 1, StartTime)

NextDecay == DecayTick

SpecDecay == InitDecay /\ [][NextDecay]_vars

(* A timer-driven and an interaction-driven mutation, one after the other, *)
(* from any stored stats: the decay tick and the random event against Pet, *)
(* Feed and Sleep.                                                         *)
InitCompose ==
  /\ steps = 0
  /\ \E saved \in DecayStarts : Mounted(saved, <<saved>>, 1, 1, StartTime)

NextCompose ==
  \/ steps < MaxCompose /\ DecayTick
  \/ \E roll \in BOOLEAN, up \in BOOLEAN : steps < MaxCompose /\ RandomEvent(roll, up)
  \/ steps < MaxCompose /\ HandlePet
  \/ \E dur \in EatDurations : steps < MaxCompose /\ HandleFeed(dur)
  \/ \E dur \in SleepDurations : steps < MaxCompose /\ HandleSleep(dur)

SpecCompose == InitCompose /\ [][NextCompose]_vars

(* The mood resolver on its own: the render of line 463 from any stats    *)
(* and any combination of the activity flags.                              *)

MoodInputs ==
  { [SavedStats(h, p, e, pet) EXCEPT !.lastToy = "mouse"] :
      h \in {0, 49, 50, 69, 70, 80, 81, 100},
      p \in {0, 29, 30, 59, 60, 80, 81, 90, 91, 100},
      e \in {0, 19, 20, 30, 31, 70, 71, 100},
      pet \in {0, StartTime - PurrWindow, StartTime - PurrWindow + 1, StartTime} }

InitMood ==
  /\ stats \in MoodInputs /\ start = stats /\ storage = Stored(<<stats>>)
  /\ mounted = TRUE
  /\ eating \in BOOLEAN /\ showSleep \in BOOLEAN /\ isPlaying \in BOOLEAN
  /\ isPetting \in BOOLEAN /\ isDragging \in BOOLEAN
  /\ runDirection \in {"left", "right"} /\ runFrame \in {1, 2}
  /\ (~(isPlaying /\ isDragging) => runDirection = "right" /\ runFrame = 1)
  /\ showToys = FALSE /\ showSparkle = FALSE /\ showHearts = FALSE /\ petHearts = 0
  /\ activeToy = (IF isPlaying THEN "mouse" ELSE "null")
  /\ eatingTimeout = NoTimer /\ heartTimeout = NoTimer
  /\ sleepTimeout = NoTimer /\ petTimeout = NoTimer
  /\ runAnimationInterval = isPlaying /\ touchStart = NoTouch
  /\ timers = EmptyBag /\ runIntervals = (IF isPlaying THEN 1 ELSE 0)
  /\ lastDay = 1 /\ today = 1 /\ now = StartTime /\ sessionStart = StartTime
  /\ decayDue = StartTime + DecayPeriod /\ autoSaveDue = StartTime + AutoSavePeriod
  /\ catSprite = Unrendered
  /\ ticks = 0 /\ steps = 0
  /\ ev = [op |-> "mount", arg |-> "none",
           pre |-> [stats |-> stats, eating |-> eating, timers |-> EmptyBag,
                    isPlaying |-> isPlaying, isDragging |-> isDragging,
                    touchStart |-> NoTouch, now |-> StartTime,
                    showSleep |-> showSleep, isPetting |-> isPetting, lastDay |-> 1],
           mid |-> stats, found |-> NotRead]

(* const catSprite = getCatSprite(stats, eating, showSleep, ...) *)
RenderMood ==
  /\ Step
  /\ catSprite = Unrendered
  /\ catSprite' = getCatSprite(stats, eating, showSleep, isPlaying /\ ~isDragging, isPetting,
                               isPlaying /\ isDragging, runDirection, runFrame, now)
  /\ ev' = Event("render", "none", stats)
  /\ UNCHANGED <<stats, flagVars, refVars, timerVars, autoSaveDue, storage, dayVars,
                 now, ticks>>

NextMood == RenderMood

SpecMood == InitMood /\ [][NextMood]_vars


(* A fresh install used over several calendar days: the page is loaded    *)
(* again on the same day, on the next day, or after a day on which it was  *)
(* not opened at all.                                                      *)
FirstDay == 0
DayGaps == {0, 1, 2}

InitStreak ==
  /\ steps = 0
  /\ Mounted(defaultStats(StartTime), NoSnapshot, NoDay, FirstDay, StartTime)

NextStreak ==
  \/ \E days \in DayGaps : Reload(days)
  \/ HandlePet
  \/ \E dur \in EatDurations : HandleFeed(dur)
  \/ DecayTick

SpecStreak == InitStreak /\ [][NextStreak]_vars


(* The callbacks that write the stats, queued one after the other: the     *)
(* decay interval, the random-event interval, and the handlers with their  *)
(* combo update.                                                           *)
InitQueue ==
  /\ steps = 0
  /\ \/ Mounted(defaultStats(StartTime), NoSnapshot, NoDay, 1, StartTime)
     \/ \E saved \in {SavedStats(79, 91, 41, StartTime - ReloadDelay)} :
          Mounted(saved, <<saved>>, 1, 1, StartTime)

NextQueue ==
  \/ DecayTick
  \/ \E roll \in BOOLEAN, up \in BOOLEAN : RandomEvent(roll, up)
  \/ \E dur \in EatDurations : HandleFeed(dur)
  \/ EatingTimeout
  \/ HandlePet
  \/ \E dur \in SleepDurations : SleepButton(dur)
  \/ \E d \in AdvanceSteps : Advance(d)

SpecQueue == InitQueue /\ [][NextQueue]_vars


(* A play session with the draggable toy.  It starts where the Play        *)
(* button has just opened the toy modal of a freshly mounted game.         *)
ToysOpened(saved, t) ==
  LET s == MountStats(LoadStats(<<saved>>, t), FALSE, t)
  IN /\ stats = s /\ start = s /\ storage = Stored(<<s>>)
     /\ lastDay = 1 /\ today = 1 /\ now = t /\ sessionStart = t
     /\ mounted = TRUE
     /\ eating = FALSE /\ showToys = TRUE /\ showSparkle = FALSE
     /\ showHearts = FALSE /\ showSleep = FALSE /\ petHearts = 0
     /\ activeToy = "null" /\ isPlaying = FALSE /\ isPetting = FALSE
     /\ isDragging = FALSE /\ runDirection = "right" /\ runFrame = 1
     /\ eatingTimeout = NoTimer /\ heartTimeout = NoTimer
     /\ sleepTimeout = NoTimer /\ petTimeout = NoTimer
     /\ runAnimationInterval = FALSE /\ touchStart = NoTouch
     /\ timers = EmptyBag /\ runIntervals = 0
     /\ decayDue = t + DecayPeriod /\ autoSaveDue = t + AutoSavePeriod
     /\ catSprite = getCatSprite(s, FALSE, FALSE, FALSE, FALSE, FALSE, "right", 1, t)
     /\ ticks = 0
     /\ ev = [op |-> "openToys", arg |-> "none",
              pre |-> [stats |-> s, eating |-> FALSE,
                       timers |-> EmptyBag, isPlaying |-> FALSE, isDragging |-> FALSE,
                       touchStart |-> NoTouch, now |-> t,
                       showSleep |-> FALSE, isPetting |-> FALSE, lastDay |-> 1],
              mid |-> s, found |-> NotRead]

InitPlay ==
  /\ steps = 0
  /\ ToysOpened(SavedStats(34, 86, 11, 0), StartTime)

NextPlay ==
  \/ \E toy \in Toys : ToyButton(toy)
  \/ OpenToys
  \/ CancelToys
  \/ StopButton
  \/ ToyGrab
  \/ ToyRelease
  \/ \E direction \in {"left", "right"}, sparkle \in BOOLEAN :
       HandleToyDrag(direction, sparkle)
  \/ SparkleTimeout
  \/ RunFrameTick
  \/ DecayTick
  \/ HandlePet
  \/ \E dur \in EatDurations : HandleFeed(dur)
  \/ \E dur \in SleepDurations : SleepButton(dur)
  \/ \E d \in AdvanceSteps : Advance(d)

SpecPlay == InitPlay /\ [][NextPlay]_vars


(* Re-renders of a cat that was petted almost five minutes before the page *)
(* was opened: time passes and the toy menu is opened and closed, which    *)
(* renders again without touching the stats or the activity flags.         *)
RecentlyPetted ==
  { SavedStats(h, p, e, StartTime - PurrWindow + since) :
      h \in {20, 50}, p \in {60, 70, 80}, e \in {50, 80},
      since \in {1, 9999, 10000, 20000} }

InitRerender ==
  /\ steps = 0
  /\ \E saved \in RecentlyPetted : Mounted(saved, <<saved>>, 1, 1, StartTime)

NextRerender ==
  \/ \E d \in AdvanceSteps : Advance(d)
  \/ OpenToys
  \/ CancelToys

SpecRerender == InitRerender /\ [][NextRerender]_vars


(* A long neglect: the page stays open and only the decay interval fires,  *)
(* MaxNeglect times, from any stored stats.  The interval fires every 15 s *)
(* for as long as the component is mounted, hence the fairness.            *)
NeglectTick ==
  /\ mounted
  /\ decayDue = NextDue
  /\ ticks < MaxNeglect
  /\ now' = decayDue
  /\ decayDue' = decayDue + DecayPeriod
  /\ ticks' = ticks + 1
  /\ ev' = Event("decay", "none", DecayUpdate(stats, decayDue))
  /\ UNCHANGED <<flagVars, refVars, timers, runIntervals, dayVars, steps>>
  /\ Commit(DecayUpdate(stats, decayDue), TRUE, decayDue)

NextNeglect == NeglectTick

SpecNeglect == InitDecay /\ [][NextNeglect]_vars /\ WF_vars(NeglectTick)


(* Games of the drag variant, one after the other, from any stored stats   *)
(* and with the toy modal open: a toy is chosen, Stop is pressed, the      *)
(* modal is opened again.                                                  *)
VariantStarts ==
  { SavedStats(h, p, e, 0) : h \in {0, 50, 92, 93, 94, 95, 100},
                             p \in {0, 59, 60, 61, 65, 66, 70, 71, 90, 100},
                             e \in {0, 7, 8, 9, 11, 12, 13, 100} }

InitVariants ==
  /\ steps = 0
  /\ \E saved \in VariantStarts : ToysOpened(saved, StartTime)

NextVariants ==
  \/ \E toy \in Toys : ToyButton(toy)
  \/ StopButton
  \/ OpenToys

SpecVariants == InitVariants /\ [][NextVariants]_vars


(* ============================= properties ============================= *)
(* the stats the latest callback found *)
Pre == ev.pre.stats
(* ms between the latest callback and the lastInteraction it found *)
Gap == ev.pre.now - ev.pre.stats.lastInteraction
(* the latest callback was an interaction handler that ran to its end *)
Interaction ==
  \/ ev.op = "feed" /\ ev.arg = "accepted"
  \/ ev.op \in {"play", "pet", "touchEnd", "sleep"}

(* the mood a sprite shows *)
MoodOf(sprite) ==
  CASE sprite = "cat_eating" -> "eating"
    [] sprite = "cat_sitting_comfortable_purring" -> "resting"
    [] sprite \in {"cat_run_left_1", "cat_run_left_2", "cat_run_right_1", "cat_run_right_2"}
         -> "running"
    [] sprite = "cat_very_happy" -> "very_happy"
    [] sprite = "cat_sitting_happy" -> "sitting_happy"
    [] sprite = "cat_mild_happy" -> "mild_happy"
    [] sprite = "cat_sad" -> "sad"
    [] OTHER -> "unknown"

(* C1: hunger, happiness and energy are each within [0,100] in every       *)
(* state reachable from the mounted state by decay ticks, random events,   *)
(* the handlers, combo bonuses and the daily-streak update.                *)
StatsInRange ==
  /\ stats.hunger \in 0..100
  /\ stats.happiness \in 0..100
  /\ stats.energy \in 0..100

(* C1 witness: a handler whose raw sum leaves the range has run and the    *)
(* stat sits on the bound.                                                 *)
StatsClamped ==
  \/ ev.op = "stop" /\ Pre.happiness > 80 /\ stats.happiness = 100
  \/ ev.op = "feed" /\ ev.arg = "accepted" /\ Pre.hunger < 35 /\ stats.hunger = 0

(* C2: the resolved mood follows the precedence of the activity flags,     *)
(* whatever the stats: eating, else sleeping -> resting, else playing and  *)
(* dragging -> running, else playing -> very_happy, else petting ->        *)
(* sitting_happy.                                                          *)
FlagPrecedence ==
  catSprite # Unrendered =>
    /\ eating => MoodOf(catSprite) = "eating"
    /\ ~eating /\ showSleep => MoodOf(catSprite) = "resting"
    /\ ~eating /\ ~showSleep /\ isPlaying /\ isDragging => MoodOf(catSprite) = "running"
    /\ ~eating /\ ~showSleep /\ isPlaying /\ ~isDragging
         => MoodOf(catSprite) = "very_happy"
    /\ ~eating /\ ~showSleep /\ ~isPlaying /\ isPetting
         => MoodOf(catSprite) = "sitting_happy"

(* C2 witness: a render with every flag set and stats that alone would     *)
(* give sad.                                                               *)
AllFlagsRendered ==
  /\ catSprite = "cat_eating"
  /\ eating /\ showSleep /\ isPlaying /\ isDragging /\ isPetting
  /\ stats.happiness < 30

(* C3: with every activity flag false the mood is the first matching stat  *)
(* rule: energy < 20 -> mild_happy; happiness < 30 or hunger > 80 -> sad;  *)
(* happiness > 90 and energy > 70 -> very_happy; happiness > 80 and        *)
(* hunger < 50 -> sitting_happy; happiness in [60,80] and last pet less    *)
(* than 5 minutes ago -> resting; otherwise mild_happy.  The result is     *)
(* always exactly one of the moods.                                        *)
StatRuleOrder ==
  catSprite # Unrendered =>
    /\ MoodOf(catSprite) # "unknown"
    /\ (~eating /\ ~showSleep /\ ~isPlaying /\ ~isPetting) =>
         MoodOf(catSprite) =
           IF stats.energy < 20 THEN "mild_happy"
           ELSE IF stats.happiness < 30 \/ stats.hunger > 80 THEN "sad"
           ELSE IF stats.happiness > 90 /\ stats.energy > 70 THEN "very_happy"
           ELSE IF stats.happiness > 80 /\ stats.hunger < 50 THEN "sitting_happy"
           ELSE IF stats.happiness \in 60..80 /\ now - stats.lastPet < 300000
                THEN "resting"
           ELSE "mild_happy"

(* C3 witness: a tired and sad cat is rendered mild_happy with no flag set *)
TiredBeforeSad ==
  /\ catSprite = "cat_mild_happy"
  /\ ~eating /\ ~showSleep /\ ~isPlaying /\ ~isPetting
  /\ stats.energy < 20 /\ stats.happiness < 30 /\ stats.hunger > 80

(* C4: N consecutive decay ticks from S give energy = max(0, S.energy -    *)
(* 2N), hunger = min(100, S.hunger + 2N), happiness = max(0, S.happiness - *)
(* N); a tick sets lastInteraction to the tick time and changes no other   *)
(* field except moodHistory.                                               *)
DecayClosedForm ==
  /\ stats.energy = Max(0, start.energy - 2 * ticks)
  /\ stats.hunger = Min(100, start.hunger + 2 * ticks)
  /\ stats.happiness = Max(0, start.happiness - ticks)
  /\ ev.op = "decay" =>
       /\ stats.lastInteraction = now
       /\ now = sessionStart + ticks * 15000
       /\ stats.lastPet = Pre.lastPet /\ stats.lastFed = Pre.lastFed
       /\ stats.lastPlay = Pre.lastPlay /\ stats.lastSleep = Pre.lastSleep
       /\ stats.totalCareDays = Pre.totalCareDays
       /\ stats.dailyStreak = Pre.dailyStreak
       /\ stats.lastToy = Pre.lastToy

(* C4 witness: several ticks have run and a stat was stopped at its bound  *)
DecayReachedBound ==
  /\ ticks >= 2
  /\ start.energy > 0 /\ stats.energy = 0 /\ start.energy < 2 * ticks
  /\ start.hunger < 100 /\ stats.hunger = 100

(* C5 (as claimed): a handler that runs less than 10,000 ms after the      *)
(* previous interaction adds 10 happiness beyond its base effect; one that *)
(* runs 10,000 ms or more after it adds nothing beyond the base effect.    *)
ComboOnlyWithinWindow ==
  Interaction =>
    /\ Gap < 10000 => stats.happiness = Min(100, ev.mid.happiness + 10)
    /\ Gap >= 10000 => stats.happiness = ev.mid.happiness

(* C6: Feed while eating changes no stats field, grants no combo, starts   *)
(* no timer and leaves the pending eating timer as it was.                 *)
FeedWhileEatingIsNoOp ==
  (ev.op = "feed" /\ ev.pre.eating) =>
    /\ stats = Pre
    /\ timers = ev.pre.timers
    /\ eating
    /\ storage.item = <<Pre>>

(* C6 witness: Feed was called while the eating timer was pending *)
FeedCalledWhileEating ==
  /\ ev.op = "feed" /\ ev.pre.eating
  /\ Pending("eating") # {}
  /\ Pre.hunger > 0

(* C7 (as claimed): an accepted Feed 10,000 ms or more after the previous  *)
(* interaction and decay tick sets hunger to max(0, hunger - 35) and       *)
(* happiness to min(100, happiness + 5), leaves energy, sets lastFed and   *)
(* lastInteraction to now and isEating to true.                            *)
FeedEffectOutsideWindow ==
  (ev.op = "feed" /\ ev.arg = "accepted" /\ Gap >= 10000) =>
    /\ stats.hunger = Max(0, Pre.hunger - 35)
    /\ stats.happiness = Min(100, Pre.happiness + 5)
    /\ stats.energy = Pre.energy
    /\ stats.lastFed = now /\ stats.lastInteraction = now
    /\ eating

StopCommitsReward ==
  ev.op = "stop" =>
    /\ Pre.lastToy = "ball" =>
         /\ stats.happiness = Min(100, Pre.happiness + 25)
         /\ stats.energy = Max(0, Pre.energy - 12)
         /\ stats.hunger = Min(100, Pre.hunger + 8)
    /\ Pre.lastToy = "mouse" =>
         /\ stats.happiness = Min(100, Pre.happiness + 30)
         /\ stats.energy = Max(0, Pre.energy - 8)
         /\ stats.hunger = Min(100, Pre.hunger + 6)
    /\ Pre.lastToy \in {"ball", "mouse"}
    /\ ~isPlaying /\ ~isDragging
    /\ stats.lastInteraction = Pre.lastInteraction
    /\ stats.lastPlay = Pre.lastPlay
    /\ stats.lastToy = Pre.lastToy

(* C9 witness: Stop ended a mouse game while the toy was being dragged *)
StoppedWhileDragging ==
  /\ ev.op = "stop" /\ Pre.lastToy = "mouse"
  /\ ev.pre.isDragging
  /\ Pre.happiness <= 70 /\ Pre.energy >= 8

(* the hold the latest touch end measured *)
Hold == ev.pre.now - ev.pre.touchStart
LongPressOutcome ==
  petHearts = 8 /\ ev.mid.happiness = Min(100, Pre.happiness + 25)
TapOutcome ==
  petHearts = 6 /\ ev.mid.happiness = Min(100, Pre.happiness + 15)

(* C10 (as claimed): a hold of d >= 600 ms is a long-press (base happiness *)
(* +25, 8 particles) and a hold of d < 600 ms a tap (base happiness +15,   *)
(* 6 particles).                                                           *)
LongPressFrom600 ==
  (ev.op = "touchEnd" /\ ev.pre.touchStart # NoTouch) =>
    /\ Hold >= 600 => LongPressOutcome
    /\ Hold < 600 => TapOutcome

(* C10 (amended): a hold of d > 600 ms is a long-press (base happiness     *)
(* +25, 8 particles) and a hold of d <= 600 ms a tap (base happiness +15,  *)
(* 6 particles); a hold of exactly 600 ms is a tap.                        *)
LongPressAbove600 ==
  (ev.op = "touchEnd" /\ ev.pre.touchStart # NoTouch) =>
    /\ Hold > 600 => LongPressOutcome
    /\ Hold <= 600 => TapOutcome

(* C10 witness: a touch ended after a hold of exactly 600 ms *)
HeldExactly600 ==
  /\ ev.op = "touchEnd" /\ ev.pre.touchStart # NoTouch
  /\ Hold = 600
  /\ Pre.happiness < 75

(* C11 (as claimed): every Pet, a tap or a long-press, sets isPetting to   *)
(* true, and isPetting stays true for 5,000 ms after that Pet.             *)
PetSetsIsPetting ==
  /\ ev.op \in {"pet", "touchEnd"} => isPetting
  /\ (mounted /\ stats.lastPet >= sessionStart /\ now - stats.lastPet < 5000) => isPetting

(* C12: the Sleep handler has no precondition: in every state, energy > 40 *)
(* and isSleeping already true included, it sets energy to min(100, energy *)
(* + 55) and isSleeping to true, sets lastSleep and lastInteraction to now *)
(* and leaves hunger unchanged.                                            *)
SleepHasNoPrecondition ==
  ev.op = "sleep" =>
    /\ stats.energy = Min(100, Pre.energy + 55)
    /\ showSleep
    /\ stats.lastSleep = now /\ stats.lastInteraction = now
    /\ stats.hunger = Pre.hunger

(* C12 witness: Sleep was called on a rested cat that was already asleep *)
SleptWhileAsleep ==
  /\ ev.op = "sleep"
  /\ Pre.energy > 40 /\ ev.pre.showSleep
  /\ Pre.energy < 100

(* C13: across any sequence of session loads totalCareDays and dailyStreak *)
(* never decrease; a load on a calendar day that differs from the stored   *)
(* last-seen day adds exactly 1 to each, every further load on that day    *)
(* adds 0.                                                                 *)
StreakOncePerDay ==
  LET added == IF ev.op \in {"mount", "reload"} /\ ev.pre.lastDay # today THEN 1 ELSE 0
  IN /\ stats.totalCareDays = Pre.totalCareDays + added
     /\ stats.dailyStreak = Pre.dailyStreak + added
     /\ stats.totalCareDays >= Pre.totalCareDays
     /\ stats.dailyStreak >= Pre.dailyStreak

(* C13 witness: a second load on a day whose first load was counted *)
LoadedAgainSameDay ==
  /\ ev.op = "reload"
  /\ ev.pre.lastDay = today /\ today > 1
  /\ stats.totalCareDays > 3

(* the stored object a load found *)
Found == Text(ev.found.item[1])

(* C14: persistence round trip.  A load of the snapshot a state was saved  *)
(* as yields a state equal to the saved one in every field present in the  *)
(* snapshot; a field the snapshot lacks takes its default value.           *)
RoundTrip ==
  (ev.op \in {"mount", "reload"} /\ ev.found.item # NoSnapshot) =>
    \A present \in {DOMAIN Found.members} : \A key \in StatKeys :
      ev.mid[key] = IF key \in present THEN Pre[key] ELSE defaultStats(now)[key]

(* C14 witness: a state with a toy, timestamps and several mood entries    *)
(* was saved and loaded                                                     *)
LoadedRichSnapshot ==
  /\ ev.op = "reload" /\ ev.found.item # NoSnapshot
  /\ Pre.lastToy = "mouse" /\ Pre.lastPlay > StartTime
  /\ Len(Pre.moodHistory) >= 3
  /\ ev.mid = Pre

(* C15 (as claimed): a load that finds a corrupt snapshot, or storage that *)
(* cannot be used, does not fail: the session starts from the default      *)
(* stats and continues.                                                    *)
LoadFallsBackToDefaults ==
  (ev.op = "reload" /\ LoadThrows(ev.found)) =>
    /\ mounted
    /\ stats = MountStats(defaultStats(now), ev.pre.lastDay # today, now)

(* C16: after every committed mutation of the stats (decay tick, random    *)
(* event, a handler's own mutation, combo bonus, Stop, daily-streak        *)
(* update, mood-history append) the snapshot in storage equals the current *)
(* stats before the next event is processed.                               *)
StorageMatchesState ==
  mounted => storage.item = <<stats>>

(* C16 witness: Stop has changed the stats and the mood-history effect has *)
(* appended to them                                                        *)
SavedAfterStop ==
  /\ ev.op = "stop"
  /\ stats.happiness # Pre.happiness
  /\ Len(stats.moodHistory) = Len(Pre.moodHistory) + 1
  /\ storage.item = <<stats>>

(* C17 (as claimed): while the session is active the auto-save timer fires *)
(* every 5 minutes, whatever the other timers do: its next firing is the   *)
(* next multiple of 5 minutes after the mount, also while the 15 s decay   *)
(* timer keeps running.                                                    *)
AutoSaveEveryFiveMinutes ==
  mounted =>
    autoSaveDue = sessionStart + 300000 * (1 + (now - sessionStart) \div 300000)

(* C18 (as claimed): moodHistory never holds more than 20 entries; every   *)
(* append leaves at most 20.                                               *)
HistoryAtMost20 ==
  Len(stats.moodHistory) <= 20

(* pending timeouts of one kind, counted with their multiplicity *)
PendingCount(kind) ==
  BagCardinality([tm \in Pending(kind) |-> CopiesIn(tm, timers)])

(* C19 (as claimed): a Pet or Sleep triggered again while its clear-timer  *)
(* is pending cancels the earlier timer: at most one clear-timer of each   *)
(* kind is pending, and the flag stays true until the timer of the latest  *)
(* trigger fires, not cleared early by an earlier one.                     *)
TimerReplacedOnRetrigger ==
  /\ PendingCount("pet") <= 1
  /\ PendingCount("sleep") <= 1
  /\ Pending("pet") # {} => isPetting
  /\ Pending("sleep") # {} => showSleep

(* C20 (as claimed): after the teardown of the session no timer it created *)
(* is still pending, whatever the interactions before it, and none fires   *)
(* afterwards.                                                             *)
NoTimerAfterTeardown ==
  /\ ~mounted => (timers = EmptyBag /\ runIntervals = 0)
  /\ ev.op # "abandonedTimeout"

(* C21 (as claimed): dailyStreak counts the consecutive calendar days, the *)
(* day of the latest load being the last of them, on which the game was    *)
(* loaded; a load that follows a calendar day without any session starts   *)
(* the count again at that day.                                            *)
StreakRestartsAfterGap ==
  (ev.op = "reload" /\ ev.arg = "loaded" /\ ev.pre.lastDay # NoDay
     /\ today > ev.pre.lastDay + 1)
    => stats.dailyStreak = 1

(* C30: from a fresh install, dailyStreak equals totalCareDays in every    *)
(* reachable state, across sessions, loads and calendar-day changes.       *)
StreakEqualsCareDays == stats.dailyStreak = stats.totalCareDays

(* C30 witness: the game was loaded again after a calendar day without a  *)
(* session, and both counters have grown since the install.                *)
CountedAcrossGap ==
  /\ ev.op = "reload" /\ today = ev.pre.lastDay + 2
  /\ stats.totalCareDays = Pre.totalCareDays + 1
  /\ stats.totalCareDays > 2

(* C23 (as claimed): a first-ever session (no stored snapshot, no stored   *)
(* last-seen day) has, once the load-time processing is done and before    *)
(* any tick or interaction, hunger 40, happiness 60, energy 70,            *)
(* totalCareDays 1 and dailyStreak 1.                                      *)
FirstSessionDefaults ==
  (ev.op \in {"mount", "reload"} /\ mounted /\ ev.found.available
     /\ ev.found.item = NoSnapshot /\ ev.pre.lastDay = NoDay)
    => /\ stats.hunger = 40 /\ stats.happiness = 60 /\ stats.energy = 70
       /\ stats.totalCareDays = 1 /\ stats.dailyStreak = 1

(* the stats apart from the mood history *)
Core(s) == [s EXCEPT !.moodHistory = << >>]

(* the updaters the latest callback queued, applied in their order to s *)
Applied(s) ==
  CASE ev.op = "decay" -> DecayUpdate(s, now)
    [] ev.op = "random" -> RandomEventUpdate(s, ev.arg # "none", ev.arg = "up")
    [] ev.op = "feed" /\ ev.arg = "accepted" -> ComboUpdate(FeedUpdate(s, now), now)
    [] ev.op = "pet" -> ComboUpdate(PetUpdate(s, now), now)
    [] ev.op = "sleep" /\ ev.arg = "none" -> ComboUpdate(SleepUpdate(s, now), now)
    [] OTHER -> s

(* ... to the stats the callback found *)
Queued == Applied(Pre)

PlayEndsOnlyByStop ==
  /\ (ev.pre.isPlaying /\ ev.op # "stop") => isPlaying
  /\ ev.op = "play" => isPlaying
  /\ ev.op = "stop" => ~isPlaying

(* C25 witness: a decay tick fired while the toy of a running game was     *)
(* being dragged, and the game goes on.                                    *)
PlayOutlastedDecayTick ==
  /\ ev.op = "decay" /\ ev.pre.isPlaying /\ ev.pre.isDragging
  /\ isPlaying

(* C26 (as claimed): the run-animation frame timer is replaced, not        *)
(* stacked: at most one is live at any time and none once Stop has run.    *)
RunTimerReplaced ==
  /\ runIntervals <= 1
  /\ ~isPlaying => runIntervals = 0

(* C29: each Stop commits one play reward, that of the toy chosen last:    *)
(* while isPlaying, lastToy is the toy of the latest Play start (ball or   *)
(* mouse, never none), and a Stop, which only runs while isPlaying, adds   *)
(* that toy's deltas once and ends the game.                               *)
StopRewardsLatestToy ==
  /\ isPlaying => stats.lastToy \in Toys /\ stats.lastToy = activeToy
  /\ ev.op = "play" => stats.lastToy = ev.arg
  /\ ev.op = "stop" =>
       /\ ev.pre.isPlaying /\ ~isPlaying
       /\ ev.arg \in Toys
       /\ stats.happiness = Min(100, Pre.happiness + (IF ev.arg = "mouse" THEN 30 ELSE 25))
       /\ stats.energy = Max(0, Pre.energy - (IF ev.arg = "mouse" THEN 8 ELSE 12))
       /\ stats.hunger = Min(100, Pre.hunger + (IF ev.arg = "mouse" THEN 6 ELSE 8))

(* C29 witness: Stop after two Play starts, the later one with the mouse:  *)
(* the mouse reward was added once.                                        *)
StoppedAfterSecondToy ==
  /\ ev.op = "stop" /\ ev.arg = "mouse" /\ steps = 4
  /\ runIntervals = 1
  /\ stats.energy = Pre.energy - 8 /\ stats.hunger = Pre.hunger + 6
  /\ stats.happiness = Min(100, Pre.happiness + 30)

Levels(s) == <<s.hunger, s.happiness, s.energy>>

(* the latest callback was Pet, an accepted Feed, Sleep or a random        *)
(* happiness swing                                                         *)
Mutation ==
  \/ ev.op \in {"pet", "sleep"}
  \/ ev.op = "feed" /\ ev.arg = "accepted"
  \/ ev.op = "random" /\ ev.arg # "none"

(* what the latest callback adds to hunger, happiness and energy when no   *)
(* clamp cuts it (the handlers with their combo bonus), and what a decay   *)
(* tick adds                                                               *)
Delta ==
  CASE ev.op = "pet" -> <<0, 25, 0>>
    [] ev.op = "feed" -> <<-35, 15, 0>>
    [] ev.op = "sleep" -> <<0, 10, 55>>
    [] ev.op = "random" -> <<0, IF ev.arg = "up" THEN 10 ELSE -10, 0>>
    [] OTHER -> <<0, 0, 0>>
DecayDelta == <<2, -1, -2>>

(* the mutation d, applied to s on its own, is not cut by the clamp *)
NotCut(s, d) == \A i \in 1..3 : Levels(s)[i] + d[i] \in 0..100

ResolverArguments ==
  <<stats, eating, showSleep, isPlaying /\ ~isDragging, isPetting,
    isPlaying /\ isDragging, runDirection, runFrame>>

(* C28 (as claimed): the mood resolver is a pure function of its arguments: *)
(* two evaluations with identical stats (lastPet included) and identical   *)
(* activity flags return the same mood, whenever they are evaluated.       *)
MoodDependsOnArgumentsOnly ==
  [][(ResolverArguments' = ResolverArguments /\ catSprite # Unrendered)
       => catSprite' = catSprite]_vars

(* hunger 100, happiness 0, energy 0 *)
Neglected == Levels(stats) = <<100, 0, 0>>

(* C31: under pure neglect (only decay ticks), from every in-range state   *)
(* the stats reach hunger = 100, energy = 0, happiness = 0 after at most    *)
(* 100 ticks and stay there forever; that state is a fixed point of the    *)
(* decay tick.                                                             *)
NeglectEndsAtFixedPoint ==
  /\ <>Neglected
  /\ [](ticks >= 100 => Neglected)
  /\ [](Neglected => [](Neglected /\ Levels(DecayUpdate(stats, decayDue)) = Levels(stats)))

(* C31 witness: the hundredth tick took the last point of happiness from a *)
(* cat that started at 100, long after hunger and energy had stopped.      *)
NeglectedAtHundredthTick ==
  /\ ticks = 100 /\ ev.op = "decay"
  /\ start.happiness = 100 /\ Pre.happiness = 1
  /\ Levels(Pre) = <<100, 1, 0>> /\ Neglected

(* C32: in the drag variant isDragging implies isPlaying in every          *)
(* reachable state: dragging starts only on the toy shown during play, and *)
(* both Play start and Stop reset isDragging to false.                     *)
DraggingOnlyWhilePlaying ==
  /\ isDragging => isPlaying /\ activeToy # "null"
  /\ ev.op \in {"play", "stop"} => ~isDragging
  /\ ev.op = "toyGrab" => ev.pre.isPlaying

(* C32 witness: a toy was chosen again while the toy of the running game   *)
(* was held, and the new game starts with the toy released.                *)
PlayRestartedWhileDragging ==
  /\ ev.op = "play" /\ ev.pre.isPlaying /\ ev.pre.isDragging
  /\ isPlaying /\ ~isDragging

(* what the two variants are compared on *)
PlayOutcome(s) == <<s.hunger, s.happiness, s.energy, s.lastToy>>

(* C33: the two Play variants agree on the stats: for every in-range       *)
(* starting state and each toy, Play(toy) in the simple variant leaves the *)
(* same hunger, happiness, energy and lastToy as Play(toy) immediately     *)
(* followed by Stop in the drag variant, combo bonus included.             *)
PlayVariantsAgree ==
  /\ ev.op = "play" =>
       PlayOutcome(StopUpdate(stats)) = PlayOutcome(SimplePlay(Pre, now, ev.arg))
  /\ (ev.op = "stop" /\ steps = 2) =>
       PlayOutcome(stats) = PlayOutcome(SimplePlay(start, now, ev.arg))

(* C33 witness: a mouse game was started and stopped at once from stats at *)
(* which the reward, the combo bonus or both are cut by the clamp.         *)
StoppedAtOnceNearBounds ==
  /\ ev.op = "stop" /\ steps = 2 /\ ev.arg = "mouse"
  /\ start.happiness \in 61..99 /\ start.energy \in 1..7 /\ start.hunger \in 95..99
  /\ PlayOutcome(stats) = <<100, 100, 0, "mouse">>

====
